---- MODULE Spec2Model ----
(***************************************************************************)
(* Model of http-downloader-tui (src/src/main.rs): the JobController       *)
(* (async fn main), the spawned RenderLoop task, ProgressBar, and the      *)
(* terminal they both write to.  The download engine (http_downloader) and *)
(* the watch channel are the environment: they publish downloaded-length   *)
(* values, learn the total size, and resolve the completion future.        *)
(***************************************************************************)
EXTENDS Integers, Sequences, FiniteSets, TLC

\* ---------------------------------------------------------------- bounds
MaxPublish == 4
ScreenRows == 3

\* ------------------------------------------------------ program constants
MaxWidth == 62

\* ------------------------------------------------------------ input sets
\* column counts crossterm::terminal::size() may report; 0 stands for Err
TermCols == {0, 40, 80}
\* downloaded-length values the engine may publish on the watch channel
DownloadedValues == {0, 250, 500, 1000}
\* content lengths the engine may learn
TotalValues == {0, 1000}
\* throughput samples of speed_state.download_speed()
SpeedValues == {100}
\* byte lengths of the text of `{duration:.2?}` ("1.23s", "100.00ms")
ElapsedLens == {5, 8}

None == [some |-> FALSE, v |-> 0]
Some(x) == [some |-> TRUE, v |-> x]

\* ------------------------------------------------------------- terminal
\* A screen row is a sequence of text tokens <<kind, n>>; the cursor is
\* (r, c) with r in 1..ScreenRows and c the number of tokens to its left.
Blank == <<"blank", 0>>
Old == <<"old", 0>>

RECURSIVE Blanks(_)
Blanks(n) == IF n <= 0 THEN <<>> ELSE <<Blank>> \o Blanks(n - 1)

\* Print(text): the text overwrites the cell under the cursor
PutTok(t, tok) ==
    LET row == t.rows[t.r]
        padded == IF Len(row) < t.c THEN row \o Blanks(t.c - Len(row)) ELSE row
        new == SubSeq(padded, 1, t.c) \o <<tok>> \o SubSeq(padded, t.c + 2, Len(padded))
    IN [t EXCEPT !.rows[t.r] = new, !.c = t.c + 1]

\* "\n" on a cooked-mode terminal: column 0 of the next row, scrolling the
\* screen up by one row when the cursor is on the last row
Newline(t) ==
    IF t.r < ScreenRows
    THEN [t EXCEPT !.r = t.r + 1, !.c = 0]
    ELSE [t EXCEPT !.rows = Tail(t.rows) \o <<(<<>>)>>, !.c = 0, !.scrolls = t.scrolls + 1]

ClearCurrentLine(t) == [t EXCEPT !.rows[t.r] = <<>>]

MoveToPreviousLine(t) == [t EXCEPT !.r = IF t.r > 1 THEN t.r - 1 ELSE 1, !.c = 0]

MoveToNextLine(t) == [t EXCEPT !.r = IF t.r < ScreenRows THEN t.r + 1 ELSE ScreenRows, !.c = 0]

MoveToColumn0(t) == [t EXCEPT !.c = 0]

\* the text update() returns: stats line, "\n", bar line (no trailing "\n")
PrintFrame(t, n) == PutTok(Newline(PutTok(t, <<"stats", n>>)), <<"bar", n>>)

InitTerm(r0) ==
    [rows |-> [i \in 1..ScreenRows |-> IF i < r0 THEN <<Old>> ELSE <<>>],
     r |-> r0, c |-> 0, scrolls |-> 0]

\* ------------------------------------------------- ProgressBar (pure)
RECURSIVE Digits(_)
Digits(n) == IF n < 10 THEN 1 ELSE 1 + Digits(n \div 10)

RECURSIVE Pow1024(_)
Pow1024(i) == IF i = 0 THEN 1 ELSE 1024 * Pow1024(i - 1)

UnitsLen == 6

\* byte_unit: divide by 1024 while the value is >= 1024 and a larger unit
\* remains; i is the index into UNITS, h the value in hundredths (the two
\* decimals `{:.2}` prints).
RECURSIVE UnitIndex(_, _)
UnitIndex(n, i) ==
    IF n \div Pow1024(i) >= 1024 /\ i < UnitsLen - 1 THEN UnitIndex(n, i + 1) ELSE i

byte_unit(n) ==
    LET i == UnitIndex(n, 0)
    IN [i |-> i, h |-> (n * 200 + Pow1024(i)) \div (2 * Pow1024(i))]

\* byte length of "{size:.2} {unit}"
SizeTextLen(n) ==
    LET u == byte_unit(n)
    IN Digits(u.h \div 100) + 3 + 1 + (IF u.i = 0 THEN 1 ELSE 2)

\* byte length of "{speed_size:.2} {speed_unit}/s - {progress} % - elapsed: {duration:.2?} "
StatsLen(speed, pct, el) == SizeTextLen(speed) + 5 + Digits(pct) + 14 + el + 1

\* byte length of "{downloaded_len_size:.2} {unit} / {total_len_size:.2} {unit}"
SizeLen(d, t) == SizeTextLen(d) + 3 + SizeTextLen(t)

\* ProgressBar::new: the terminal columns (0 when size() fails) clamped
ProgressBar_new(cols, max_width) == IF cols < max_width THEN cols ELSE max_width

\* mutant: the filled count is rounded up
progress_width_RoundUp(progress, bar_p_width) == (progress * bar_p_width + 99) \div 100

\* let progress_width = progress * bar_p_width / 100
progress_width(progress, bar_p_width) == (progress * bar_p_width) \div 100

\* ProgressBar::update.  res = "div0": total_len is 0 (division panics);
\* res = "underflow": bar_width - bar_buf.len() - buf.len() is negative
\* (usize subtraction: a panic with overflow checks, a wrapped count without).
\* The product downloaded_len * 100 is a u64 product; the values published
\* here (DownloadedValues) are far below the width, so it is written unreduced.
update(bar_width, d, t, speed, el) ==
    IF t = 0 THEN [res |-> "div0", pct |-> 0, filled |-> 0, pad |-> 0, cells |-> 0,
                   spaces |-> 0, line1 |-> 0]
    ELSE LET progress == (d * 100) \div t
             pad == bar_width - StatsLen(speed, progress, el) - SizeLen(d, t)
             bar_p_width == bar_width - 2
             filled == progress_width(progress, bar_p_width)
         IN IF pad < 0 \/ bar_p_width < 0
            THEN [res |-> "underflow", pct |-> progress, filled |-> 0, pad |-> 0,
                  cells |-> 0, spaces |-> 0, line1 |-> 0]
            ELSE [res |-> "ok", pct |-> progress, filled |-> filled,
                  pad |-> pad, cells |-> bar_p_width,
                  spaces |-> IF filled < bar_p_width
                             THEN bar_p_width - filled ELSE 0,
                  line1 |-> StatsLen(speed, progress, el) + pad + SizeLen(d, t)]

\* ------------------------------------------------ u64 and f32 arithmetic
\* A u64 is four 16-bit limbs, least significant first.
LimbBase == 2 ^ 16

U64(n) == <<n % LimbBase, (n \div LimbBase) % LimbBase, 0, 0>>

\* the value of a u64 below 2^31
ToInt(x) == x[1] + LimbBase * x[2]

\* x * k in full (five limbs), for a small factor k
MulSmall5(x, k) ==
    LET p1 == x[1] * k
        p2 == x[2] * k + p1 \div LimbBase
        p3 == x[3] * k + p2 \div LimbBase
        p4 == x[4] * k + p3 \div LimbBase
    IN <<p1 % LimbBase, p2 % LimbBase, p3 % LimbBase, p4 % LimbBase, p4 \div LimbBase>>

RECURSIVE LeqFrom(_, _, _)
LeqFrom(a, b, i) ==
    IF i = 0 THEN TRUE
    ELSE IF a[i] # b[i] THEN a[i] < b[i]
    ELSE LeqFrom(a, b, i - 1)

Leq5(a, b) == LeqFrom(a, b, 5)
Leq64(a, b) == LeqFrom(a, b, 4)

\* x / t for u64 x and t # 0 whose quotient is at most 100 (as it is whenever
\* downloaded_len <= total_len)
DivU64(x, t) ==
    LET x5 == x \o <<0>>
    IN CHOOSE q \in 0..100 : Leq5(MulSmall5(t, q), x5) /\ ~Leq5(MulSmall5(t, q + 1), x5)

\* (downloaded_len * 100 / total_len) as usize, on u64.  The product panics
\* when it exceeds u64 and overflow checks are on, and wraps when they are off.
progress_u64(d, t, checks) ==
    LET p == MulSmall5(d, 100)
    IN IF t = U64(0) THEN [panic |-> TRUE, pct |-> 0]
       ELSE IF p[5] # 0 /\ checks THEN [panic |-> TRUE, pct |-> 0]
       ELSE [panic |-> FALSE, pct |-> DivU64(SubSeq(p, 1, 4), t)]

Bit(x, j) == (x[(j \div 16) + 1] \div (2 ^ (j % 16))) % 2

RECURSIVE BitLenFrom(_, _)
BitLenFrom(x, j) == IF j = 0 THEN 0 ELSE IF Bit(x, j - 1) = 1 THEN j ELSE BitLenFrom(x, j - 1)

BitLen(x) == BitLenFrom(x, 64)

RECURSIVE BitLenInt(_)
BitLenInt(m) == IF m = 0 THEN 0 ELSE 1 + BitLenInt(m \div 2)

\* bits lo .. hi-1 of x as a number
RECURSIVE BitsValue(_, _, _)
BitsValue(x, lo, hi) == IF hi <= lo THEN 0 ELSE 2 * BitsValue(x, lo + 1, hi) + Bit(x, lo)

\* `bytes_count as f32`: the nearest value with a 24-bit significand, ties to
\* even, as the pair (m, e) standing for m * 2^e
AsF32(x) ==
    LET len == BitLen(x)
        k == len - 24
    IN IF k <= 0 THEN [m |-> BitsValue(x, 0, len), e |-> 0]
       ELSE LET m0 == BitsValue(x, k, len)
                guard == Bit(x, k - 1)
                sticky == \E j \in 0..(k - 2) : Bit(x, j) = 1
                up == guard = 1 /\ (sticky \/ m0 % 2 = 1)
            IN [m |-> IF up THEN m0 + 1 ELSE m0, e |-> k]

\* m * 2^e >= 1024.0
GeqKilo(m, e) == m # 0 /\ BitLenInt(m) + e >= 11

\* mutant: the comparison is strict
KeepDividing_Strict(m, e, i) ==
    m # 0 /\ (BitLenInt(m) + e >= 12 \/ (BitLenInt(m) + e = 11 /\ m # 2 ^ (BitLenInt(m) - 1)))
    /\ i < UnitsLen - 1

\* while bytes_count >= 1024.0 && i < UNITS.len() - 1
KeepDividing(m, e, i) == GeqKilo(m, e) /\ i < UnitsLen - 1

\* the loop of byte_unit on an f32: i += 1; bytes_count /= 1024.0 (exact)
RECURSIVE ByteUnitLoop(_, _, _)
ByteUnitLoop(m, e, i) ==
    IF KeepDividing(m, e, i) THEN ByteUnitLoop(m, e - 10, i + 1)
    ELSE [i |-> i, m |-> m, e |-> e]

\* byte_unit on the whole of u64: (m * 2^e, UNITS[i])
byte_unit_u64(x) == LET f == AsF32(x) IN ByteUnitLoop(f.m, f.e, 0)

\* ------------------------------------------------------------ the state
VARIABLES
    silence, progress,     \* Args
    term, cursorVisible,   \* the terminal
    hides,                 \* how many times Hide was written
    slept,                 \* a delay has completed since the last frame
    mpc,                   \* position of main
    rpc,                   \* position of the spawned render task
    is_first, total_len, bar_width, rx_version,   \* locals of the task
    frames,                \* frames the task has written, in order
    summaryPrinted, savePrinted,                  \* final writes of main
    engState, engineTotal, outcome,               \* the engine
    chValue, chVersion, senderAlive,              \* the watch channel
    published,             \* values sent on the channel, in order
    knownVer,              \* channel version when the total was learned
    pure                   \* one call of a ProgressBar function and its result

vars == <<silence, progress, term, cursorVisible, hides, slept, mpc, rpc, is_first,
          total_len, bar_width, rx_version, frames, summaryPrinted,
          savePrinted, engState, engineTotal, outcome, chValue, chVersion,
          senderAlive, published, knownVer, pure>>

argVars == <<silence, progress>>
taskVars == <<rpc, is_first, total_len, bar_width, rx_version, frames, slept>>
mainVars == <<mpc, summaryPrinted, savePrinted>>
engVars == <<engState, engineTotal, outcome, chValue, chVersion, senderAlive,
             published, knownVer>>

\* the result of a call that has not been made
NoResult == [panic |-> FALSE, spin |-> FALSE, pct |-> 0, filled |-> 0, spaces |-> 0,
             pad |-> 0, line1 |-> 0, i |-> 0, m |-> 0, e |-> 0]

\* no call: the value of pure throughout a job
PureIdle == [op |-> "none", d |-> U64(0), d2 |-> U64(0), t |-> U64(0), w |-> 0,
             speed |-> 0, el |-> 0, checks |-> FALSE, phase |-> 0,
             out1 |-> NoResult, out2 |-> NoResult]

Init ==
    /\ pure = PureIdle
    /\ silence \in BOOLEAN /\ progress \in BOOLEAN
    /\ \E r0 \in 1..ScreenRows : term = InitTerm(r0)
    /\ cursorVisible = TRUE /\ hides = 0 /\ slept = FALSE
    /\ mpc = "hide" /\ rpc = "none"
    /\ is_first = TRUE /\ total_len = None /\ bar_width = 0 /\ rx_version = 0
    /\ frames = <<>>
    /\ summaryPrinted = FALSE /\ savePrinted = FALSE
    /\ engState = "idle" /\ engineTotal = None /\ outcome = "pending"
    /\ chValue = 0 /\ chVersion = 0 /\ senderAlive = TRUE
    /\ published = <<>> /\ knownVer = -1

\* ------------------------------------------------------- JobController
\* mutant: the Hide command has no effect
Hide_Noop(visible) == visible

\* crossterm::cursor::Hide
Hide(visible) == FALSE

\* execute!(stdout(), Hide)?  -- ok = FALSE: the write returns an io error
MainHide(ok) ==
    /\ mpc = "hide"
    /\ IF ok THEN cursorVisible' = Hide(cursorVisible) /\ hides' = hides + 1 /\ mpc' = "start"
             ELSE UNCHANGED <<cursorVisible, hides>> /\ mpc' = "exit_err"
    /\ UNCHANGED <<pure, argVars, term, taskVars, summaryPrinted, savePrinted, engVars>>

\* downloader.start().await?  -- ok = FALSE: DownloadStartError
MainStart(ok) ==
    /\ mpc = "start"
    /\ IF ok THEN engState' = "running" /\ mpc' = "spawn"
             ELSE engState' = engState /\ mpc' = "exit_err"
    /\ UNCHANGED <<pure, argVars, term, cursorVisible, hides, taskVars, summaryPrinted, savePrinted,
                   engineTotal, outcome, chValue, chVersion, senderAlive, published,
                   knownVer>>

\* mutant: the silence flag is not consulted
SpawnGuard_IgnoresSilence(sil, prog) == prog

SpawnGuard(sil, prog) == ~sil /\ prog

\* if !args.silence && args.progress { ProgressBar::new(62); tokio::spawn(..) }
\* The receiver is cloned from the downloader's own, which has seen nothing;
\* cols is what terminal::size() reports to ProgressBar::new (0: Err).
MainSpawn(cols) ==
    /\ mpc = "spawn"
    /\ mpc' = "await"
    /\ IF SpawnGuard(silence, progress)
       THEN /\ bar_width' = ProgressBar_new(cols, MaxWidth)
            /\ rx_version' = 0
            /\ rpc' = "query"
       ELSE UNCHANGED <<bar_width, rx_version, rpc>>
    /\ UNCHANGED <<pure, argVars, term, cursorVisible, hides, is_first, slept, total_len, frames,
                   summaryPrinted, savePrinted, engVars>>

\* let dec = finished_future.await?;
MainAwait ==
    /\ mpc = "await"
    /\ outcome # "pending"
    /\ mpc' = IF outcome = "ok" THEN "final" ELSE "exit_err"
    /\ UNCHANGED <<pure, argVars, term, cursorVisible, hides, taskVars, summaryPrinted, savePrinted,
                   engVars>>

FinalErase(t) ==
    MoveToColumn0(ClearCurrentLine(MoveToPreviousLine(ClearCurrentLine(MoveToNextLine(t)))))

\* if !args.silence { execute!(MoveToNextLine(1), Clear, MoveToPreviousLine(1),
\*                             Clear, MoveToColumn(0), Print(dec))?; ...
MainFinal(ok) ==
    /\ mpc = "final"
    /\ IF silence
       THEN mpc' = "exit_ok" /\ UNCHANGED <<term, summaryPrinted>>
       ELSE IF ok
            THEN /\ term' = PutTok(FinalErase(term), <<"summary", 0>>)
                 /\ summaryPrinted' = TRUE
                 /\ mpc' = "saveto"
            ELSE mpc' = "exit_err" /\ UNCHANGED <<term, summaryPrinted>>
    /\ UNCHANGED <<pure, argVars, cursorVisible, hides, taskVars, savePrinted, engVars>>

\* println!("Save To: {}", ..)  -- ok = FALSE: println! panics on an io error
MainSaveTo(ok) ==
    /\ mpc = "saveto"
    /\ IF ok
       THEN /\ term' = Newline(PutTok(term, <<"saveto", 0>>))
            /\ savePrinted' = TRUE
            /\ mpc' = "exit_ok"
       ELSE mpc' = "exit_err" /\ UNCHANGED <<term, savePrinted>>
    /\ UNCHANGED <<pure, argVars, cursorVisible, hides, taskVars, summaryPrinted, engVars>>

MainExited == mpc \in {"exit_ok", "exit_err"}

\* main has returned: the runtime is dropped and a task suspended at an
\* await is dropped with it
RuntimeShutdown ==
    /\ MainExited
    /\ rpc \in {"query", "wait", "sleep"}
    /\ rpc' = "dropped"
    /\ UNCHANGED <<pure, argVars, term, cursorVisible, hides, mainVars, is_first, slept, total_len,
                   bar_width, rx_version, frames, engVars>>

\* ---------------------------------------------------------- RenderLoop
\* mutant: an unknown total is replaced by a default size
total_size_Default(et) == IF et.some THEN et ELSE Some(1000)

\* let total_len = downloader.total_size().await;   (once, before the loop)
total_size(et) == et

TaskQuery ==
    /\ rpc = "query"
    /\ total_len' = total_size(engineTotal)
    /\ rpc' = "wait"
    /\ UNCHANGED <<pure, argVars, term, cursorVisible, hides, mainVars, is_first, slept, bar_width,
                   rx_version, frames, engVars>>

\* mutant: the loop does not wait for an unseen version
HasChanged_Always(ver, seen) == TRUE

\* watch::Receiver::changed: Ok as soon as a version the receiver has not seen
\* exists (marking it seen), Err when there is none and the sender is gone
HasChanged(ver, seen) == ver # seen

TaskChangedOk ==
    /\ rpc = "wait"
    /\ HasChanged(chVersion, rx_version)
    /\ rx_version' = chVersion
    /\ rpc' = "render"
    /\ UNCHANGED <<pure, argVars, term, cursorVisible, hides, mainVars, is_first, slept, total_len,
                   bar_width, frames, engVars>>

TaskChangedErr ==
    /\ rpc = "wait"
    /\ ~HasChanged(chVersion, rx_version)
    /\ ~senderAlive
    /\ rpc' = "stopped"
    /\ UNCHANGED <<pure, argVars, term, cursorVisible, hides, mainVars, is_first, slept, total_len,
                   bar_width, rx_version, frames, engVars>>

\* if let Some(total_len) = total_len
TotalKnown(t) == t.some

\* mutant: only the bar line is erased
EraseFrame_OneLine(t) == MoveToColumn0(ClearCurrentLine(t))

\* Clear(CurrentLine), MoveToPreviousLine(1), Clear(CurrentLine), MoveToColumn(0)
EraseFrame(t) == MoveToColumn0(ClearCurrentLine(MoveToPreviousLine(ClearCurrentLine(t))))

\* the write of one frame: the first without an erase, the others after one
WriteFrame(t, first, n) == IF first THEN PrintFrame(t, n) ELSE PrintFrame(EraseFrame(t), n)

\* mutant: the delay is taken only after a frame was written
NextAfterBody_SleepIfRendered(rendered) == IF rendered THEN "sleep" ELSE "wait"

\* the sleep at the end of the loop body is outside the `if let`: every
\* iteration reaches it
NextAfterBody(rendered) == "sleep"

\* the loop body after changed() returned Ok: borrow the value, update, write
TaskRender(speed, el, ok, wraps) ==
    /\ rpc = "render"
    /\ LET downloaded_len == chValue
           u == update(bar_width, downloaded_len, total_len.v, speed, el)
       IN IF ~TotalKnown(total_len)
          THEN rpc' = NextAfterBody(FALSE) /\ UNCHANGED <<term, is_first, frames, slept>>
          ELSE IF u.res = "div0"
          THEN rpc' = "panicked" /\ UNCHANGED <<term, is_first, frames, slept>>
          ELSE IF u.res = "underflow"
          THEN /\ rpc' = IF wraps THEN "spinning" ELSE "panicked"
               /\ UNCHANGED <<term, is_first, frames, slept>>
          ELSE IF ~ok
          THEN rpc' = "failed" /\ UNCHANGED <<term, is_first, frames, slept>>
          ELSE /\ term' = WriteFrame(term, is_first, Len(frames) + 1)
               /\ frames' = Append(frames, [ver |-> rx_version, pct |-> u.pct,
                                            filled |-> u.filled])
               /\ is_first' = FALSE
               /\ slept' = FALSE
               /\ rpc' = NextAfterBody(TRUE)
    /\ UNCHANGED <<pure, argVars, cursorVisible, hides, mainVars, total_len, bar_width, rx_version,
                   engVars>>

\* tokio::time::sleep(Duration::from_millis(100)).await
TaskSleep ==
    /\ rpc = "sleep"
    /\ rpc' = "wait"
    /\ slept' = TRUE
    /\ UNCHANGED <<pure, argVars, term, cursorVisible, hides, mainVars, is_first, total_len,
                   bar_width, rx_version, frames, engVars>>

\* ------------------------------------------------- the engine (environment)
EngineLearnTotal(t) ==
    /\ engState = "running"
    /\ ~engineTotal.some
    /\ t >= chValue
    /\ engineTotal' = Some(t)
    /\ knownVer' = chVersion
    /\ UNCHANGED <<pure, argVars, term, cursorVisible, hides, mainVars, taskVars, engState, outcome,
                   chValue, chVersion, senderAlive, published>>

\* the engine sends the downloaded length when it has grown (and may send the
\* initial 0 first)
EnginePublish(v) ==
    /\ engState = "running"
    /\ Len(published) < MaxPublish
    /\ v > chValue \/ (v = 0 /\ published = <<>>)
    /\ engineTotal.some => v <= engineTotal.v
    /\ chValue' = v
    /\ chVersion' = chVersion + 1
    /\ published' = Append(published, v)
    /\ UNCHANGED <<pure, argVars, term, cursorVisible, hides, mainVars, taskVars, engState,
                   engineTotal, outcome, senderAlive, knownVer>>

EngineEnd(o) ==
    /\ engState = "running"
    /\ o = "ok" /\ engineTotal.some => chValue = engineTotal.v
    /\ engState' = "ended"
    /\ outcome' = o
    /\ UNCHANGED <<pure, argVars, term, cursorVisible, hides, mainVars, taskVars, engineTotal,
                   chValue, chVersion, senderAlive, published, knownVer>>

EngineDropSender ==
    /\ engState = "ended"
    /\ senderAlive
    /\ senderAlive' = FALSE
    /\ UNCHANGED <<pure, argVars, term, cursorVisible, hides, mainVars, taskVars, engState,
                   engineTotal, outcome, chValue, chVersion, published, knownVer>>

Next ==
    \/ \E ok \in BOOLEAN : MainHide(ok)
    \/ \E ok \in BOOLEAN : MainStart(ok)
    \/ \E cols \in TermCols : MainSpawn(cols)
    \/ MainAwait
    \/ \E ok \in BOOLEAN : MainFinal(ok)
    \/ \E ok \in BOOLEAN : MainSaveTo(ok)
    \/ RuntimeShutdown
    \/ TaskQuery
    \/ TaskChangedOk
    \/ TaskChangedErr
    \/ \E speed \in SpeedValues, el \in ElapsedLens, ok \in BOOLEAN, wraps \in BOOLEAN :
          TaskRender(speed, el, ok, wraps)
    \/ TaskSleep
    \/ \E t \in TotalValues : EngineLearnTotal(t)
    \/ \E v \in DownloadedValues : EnginePublish(v)
    \/ \E o \in {"ok", "err"} : EngineEnd(o)
    \/ EngineDropSender

Spec == Init /\ [][Next]_vars

\* the steps of main, and of the spawned task
MainStep ==
    \/ \E ok \in BOOLEAN : MainHide(ok)
    \/ \E ok \in BOOLEAN : MainStart(ok)
    \/ \E cols \in TermCols : MainSpawn(cols)
    \/ MainAwait
    \/ \E ok \in BOOLEAN : MainFinal(ok)
    \/ \E ok \in BOOLEAN : MainSaveTo(ok)

TaskStep ==
    \/ TaskQuery
    \/ TaskChangedOk
    \/ TaskChangedErr
    \/ \E speed \in SpeedValues, el \in ElapsedLens, ok \in BOOLEAN, wraps \in BOOLEAN :
          TaskRender(speed, el, ok, wraps)
    \/ TaskSleep

\* The tokio runtime keeps polling main and the spawned task whenever they
\* can make progress, and shuts down once main has returned; the engine is
\* taken to close the channel once the transfer has ended.
SpecFair ==
    /\ Init /\ [][Next]_vars
    /\ WF_vars(MainStep) /\ WF_vars(TaskStep) /\ WF_vars(RuntimeShutdown)
    /\ WF_vars(EngineDropSender)

\* --------------------------------------- the ProgressBar functions alone
\* u64 arguments: 0, 50, 101, 250, 500, 1000, 1024, 1536, 2^24+1, 2^30-1,
\* 18*10^16, floor((2^64-1)/100), 19*10^16, 2*10^17, 2^60, 2^64-1
U64Values ==
    {U64(0), U64(50), U64(101), U64(250), U64(500), U64(1000), U64(1024), U64(1536),
     <<1, 256, 0, 0>>, <<65535, 16383, 0, 0>>,
     <<0, 56210, 32011, 639>>, <<36700, 62914, 23592, 655>>, <<0, 19283, 1022, 675>>,
     <<0, 47892, 35568, 710>>, <<0, 0, 0, 4096>>, <<65535, 65535, 65535, 65535>>}

\* (downloaded_len, total_len) pairs for update
SmallPairs == {<<0, 1000>>, <<250, 1000>>, <<500, 1000>>, <<1000, 1000>>, <<50, 101>>,
               <<1, 3>>, <<2, 3>>}

ProgressCalls ==
    {[PureIdle EXCEPT !.op = "progress", !.d = c[1], !.d2 = c[2], !.t = c[3], !.checks = c[4]] :
        c \in {x \in U64Values \X U64Values \X U64Values \X BOOLEAN :
                 Leq64(x[1], x[2]) /\ Leq64(x[2], x[3]) /\ x[3] # U64(0)}}

UpdateCalls ==
    {[PureIdle EXCEPT !.op = "update", !.d = U64(c[1][1]), !.t = U64(c[1][2]), !.w = c[2],
                      !.speed = c[3], !.el = c[4], !.checks = c[5]] :
        c \in SmallPairs \X (0..MaxWidth) \X SpeedValues \X ElapsedLens \X BOOLEAN}

ByteUnitCalls == {[PureIdle EXCEPT !.op = "byte_unit", !.d = x] : x \in U64Values}

jobVars == <<silence, progress, term, cursorVisible, hides, slept, mpc, rpc, is_first,
             total_len, bar_width, rx_version, frames, summaryPrinted,
             savePrinted, engState, engineTotal, outcome, chValue, chVersion,
             senderAlive, published, knownVer>>

\* one call is drawn; the job itself does not run
PureInit ==
    /\ pure \in ProgressCalls \cup UpdateCalls \cup ByteUnitCalls
    /\ silence = FALSE /\ progress = TRUE
    /\ term = InitTerm(1)
    /\ cursorVisible = TRUE /\ hides = 0 /\ slept = FALSE
    /\ mpc = "hide" /\ rpc = "none"
    /\ is_first = TRUE /\ total_len = None /\ bar_width = 0 /\ rx_version = 0
    /\ frames = <<>>
    /\ summaryPrinted = FALSE /\ savePrinted = FALSE
    /\ engState = "idle" /\ engineTotal = None /\ outcome = "pending"
    /\ chValue = 0 /\ chVersion = 0 /\ senderAlive = TRUE
    /\ published = <<>> /\ knownVer = -1

\* two consecutive calls with downloaded_len d, then d2: the percentage each
\* computes (the second is made only if the first did not panic)
ApplyProgress ==
    /\ pure.op = "progress"
    /\ \/ /\ pure.phase = 0
          /\ LET r == progress_u64(pure.d, pure.t, pure.checks)
             IN pure' = [pure EXCEPT !.phase = 1,
                           !.out1 = [NoResult EXCEPT !.panic = r.panic, !.pct = r.pct]]
       \/ /\ pure.phase = 1 /\ ~pure.out1.panic
          /\ LET r == progress_u64(pure.d2, pure.t, pure.checks)
             IN pure' = [pure EXCEPT !.phase = 2,
                           !.out2 = [NoResult EXCEPT !.panic = r.panic, !.pct = r.pct]]
    /\ UNCHANGED jobVars

\* one call of update on a bar of width w
ApplyUpdate ==
    /\ pure.op = "update" /\ pure.phase = 0
    /\ LET u == update(pure.w, ToInt(pure.d), ToInt(pure.t), pure.speed, pure.el)
       IN pure' = [pure EXCEPT !.phase = 1,
                     !.out1 = [NoResult EXCEPT
                                 !.panic = u.res = "div0" \/ (u.res = "underflow" /\ pure.checks),
                                 !.spin = u.res = "underflow" /\ ~pure.checks,
                                 !.pct = u.pct, !.filled = u.filled, !.spaces = u.spaces,
                                 !.pad = u.pad, !.line1 = u.line1]]
    /\ UNCHANGED jobVars

\* one call of byte_unit
ApplyByteUnit ==
    /\ pure.op = "byte_unit" /\ pure.phase = 0
    /\ LET b == byte_unit_u64(pure.d)
       IN pure' = [pure EXCEPT !.phase = 1,
                     !.out1 = [NoResult EXCEPT !.i = b.i, !.m = b.m, !.e = b.e]]
    /\ UNCHANGED jobVars

PureNext == ApplyProgress \/ ApplyUpdate \/ ApplyByteUnit

SpecPure == PureInit /\ [][PureNext]_vars

\* ================================================================ claims
RenderLoopActive == rpc \in {"query", "wait", "render", "sleep", "spinning"}

\* C1: single writer to the terminal.  JobController makes its final writes
\* (erase sequence, summary, "Save To") only once RenderLoop has stopped, and
\* RenderLoop writes no frame after JobController has begun them.
C1_SingleWriter ==
    [][/\ (summaryPrinted' /\ ~summaryPrinted) => ~RenderLoopActive
       /\ summaryPrinted => frames' = frames]_vars

IsFrameTok(tok) == tok[1] \in {"stats", "bar"}

\* rows of the screen that hold text of some frame
FrameRows == {i \in 1..ScreenRows : \E j \in 1..Len(term.rows[i]) : IsFrameTok(term.rows[i][j])}

\* C2: when at least one frame was printed and output is not silenced,
\* JobController's final erase-and-print sequence leaves neither line of the
\* last frame (stats line, bar line) on the screen.
C2_LastFrameErased ==
    [][(~summaryPrinted /\ summaryPrinted' /\ ~silence /\ Len(frames) >= 1)
         => FrameRows' = {}]_vars

\* frame n, and only it, is on the screen: its stats line on row top, its bar
\* line on the row below, the cursor behind the bar
OneFrameAt(top, n) ==
    /\ term.rows[top] = << <<"stats", n>> >>
    /\ term.rows[top + 1] = << <<"bar", n>> >>
    /\ term.r = top + 1 /\ term.c = 1
    /\ FrameRows = {top, top + 1}

OldCount == Cardinality({i \in 1..ScreenRows : term.rows[i] = <<Old>>})

\* C3: while RenderLoop is the writer, exactly one frame is on the screen after
\* any number of redraws: the first frame is printed without erasing anything,
\* every later frame replaces the previous one on the same two rows, and a
\* redraw never scrolls.
C3_OneFrameOnScreen ==
    /\ []((Len(frames) >= 1 /\ ~summaryPrinted) =>
            \E top \in 1..(ScreenRows - 1) : OneFrameAt(top, Len(frames)))
    /\ [][(~summaryPrinted /\ Len(frames') > Len(frames)) =>
            IF Len(frames) = 0
            THEN OldCount' = OldCount - (term'.scrolls - term.scrolls)
            ELSE term'.scrolls = term.scrolls /\ term'.r = term.r]_vars

C3_Witness ==
    /\ Len(frames) >= 3 /\ ~summaryPrinted /\ term.scrolls = 1
    /\ OneFrameAt(ScreenRows - 1, Len(frames))

RECURSIVE Pcts(_)
Pcts(fs) == IF fs = <<>> THEN <<>> ELSE <<Head(fs).pct>> \o Pcts(Tail(fs))

\* C5: end to end, with total = 1000 and the engine publishing 0, 250, 500,
\* 1000 (speed 100, a terminal at least MaxWidth wide): by the time
\* JobController prints the final summary RenderLoop has written exactly four
\* frames with percentages 0, 25, 50, 100 and non-decreasing fill, and has
\* stopped.
C5_EndToEnd ==
    (/\ published = <<0, 250, 500, 1000>>
     /\ total_len = Some(1000) /\ bar_width = MaxWidth
     /\ rpc \notin {"failed", "dropped"}
     /\ summaryPrinted)
    => /\ Pcts(frames) = <<0, 25, 50, 100>>
       /\ \A k \in 2..Len(frames) : frames[k].filled >= frames[k - 1].filled
       /\ rpc = "stopped"

\* C6: while the total size is unknown, to the engine or to the loop, no frame
\* is written, however many change notifications arrive.
C6_NoFrameWhileUnknown ==
    (~engineTotal.some \/ ~total_len.some) => frames = <<>>

C6_Witness ==
    /\ ~engineTotal.some /\ rpc = "sleep" /\ rx_version >= 2 /\ frames = <<>>

\* C7: the total is unknown when the loop starts and becomes known later; the
\* loop has then handled a change notification sent after it became known: the
\* first frame has been printed.
C7_LeavesIdle ==
    (/\ rpc = "sleep" /\ ~total_len.some /\ bar_width = MaxWidth
     /\ engineTotal.some /\ engineTotal.v > 0 /\ knownVer >= 0 /\ rx_version > knownVer)
    => Len(frames) >= 1

\* C8: when the completion future resolves with a failure and output is not
\* silenced, JobController has printed the summary by the time main returns.
C8_SummaryOnFailure ==
    (MainExited /\ outcome = "err" /\ ~silence) => summaryPrinted

\* C9: when the render task ended with an error (update or a frame write
\* failed and `?` returned it), the job ends with a failure outcome.
C9_RenderErrorFatal ==
    (MainExited /\ rpc = "failed") => mpc = "exit_err"

\* C10: RenderLoop is spawned iff progress is on and silence is off; with
\* silence on nothing is written (no frame, no summary, no "Save To"); with
\* progress off no frame is written; and with silence off a job that ends
\* normally has written the summary and the "Save To" line.
C10_FlagsDecideOutput ==
    /\ (engState # "idle" /\ mpc # "spawn") => (rpc # "none" <=> (progress /\ ~silence))
    /\ silence => (frames = <<>> /\ ~summaryPrinted /\ ~savePrinted /\ FrameRows = {})
    /\ ~progress => (frames = <<>> /\ FrameRows = {})
    /\ (~silence /\ mpc = "exit_ok") => (summaryPrinted /\ savePrinted)

C10_Witness ==
    /\ ~progress /\ ~silence /\ mpc = "exit_ok" /\ Len(published) >= 2
    /\ summaryPrinted /\ savePrinted /\ frames = <<>>

\* floor(d * 100 / t) over the integers, for d <= t
ExactPct(d, t) ==
    CHOOSE q \in 0..100 :
        /\ Leq5(MulSmall5(t, q), MulSmall5(d, 100))
        /\ ~Leq5(MulSmall5(t, q + 1), MulSmall5(d, 100))

\* C11: for all 64-bit unsigned downloaded <= total, total > 0, update
\* computes progress_pct = floor(downloaded * 100 / total), within 0..100;
\* downloaded = 50, total = 101 gives 49.
C11_PctFloor ==
    (pure.op = "progress" /\ pure.phase >= 1)
    => /\ ~pure.out1.panic
       /\ pure.out1.pct = ExactPct(pure.d, pure.t)
       /\ pure.out1.pct \in 0..100
       /\ (pure.d = U64(50) /\ pure.t = U64(101)) => pure.out1.pct = 49

\* C12: for a fixed total and two consecutive update calls with d1 <= d2, the
\* second call's progress_pct is not smaller than the first's.
C12_PctMonotone ==
    (pure.op = "progress" /\ pure.phase = 2 /\ ~pure.out2.panic)
    => pure.out2.pct >= pure.out1.pct

UpdateReturned == pure.op = "update" /\ pure.phase = 1 /\ ~pure.out1.panic /\ ~pure.out1.spin

\* C13: in every frame update produces, the bar line has exactly width - 2
\* cells between the brackets, floor(pct * (width - 2) / 100) of them block
\* glyphs and the rest spaces, and the filled count never exceeds width - 2.
C13_BarCells ==
    UpdateReturned
    => /\ pure.w >= 2
       /\ pure.out1.filled = (pure.out1.pct * (pure.w - 2)) \div 100
       /\ pure.out1.filled + pure.out1.spaces = pure.w - 2
       /\ pure.out1.filled <= pure.w - 2

C13_Witness ==
    /\ UpdateReturned /\ pure.w = MaxWidth
    /\ pure.out1.pct = 49 /\ pure.out1.filled = 29 /\ pure.out1.spaces = 31

\* the two texts fit in the width
Fits(w, stats, size) == w >= stats + size

\* C14: for every captured width 0..max_width update succeeds, pads with
\* max(0, width - len(stats) - len(size)) spaces, the first line is exactly
\* width long when the texts fit, and the padding is zero when they do not.
C14_PaddingClamped ==
    (pure.op = "update" /\ pure.phase = 1)
    => LET stats == StatsLen(pure.speed, pure.out1.pct, pure.el)
           size == SizeLen(ToInt(pure.d), ToInt(pure.t))
       IN /\ ~pure.out1.panic /\ ~pure.out1.spin
          /\ Fits(pure.w, stats, size)
                => (pure.out1.pad = pure.w - stats - size /\ pure.out1.line1 = pure.w)
          /\ ~Fits(pure.w, stats, size) => pure.out1.pad = 0

\* m * 2^e = n / 2^k
F32Is(m, e, n, k) == IF e + k >= 0 THEN m * 2 ^ (e + k) = n ELSE m = n * 2 ^ (0 - e - k)

\* C15: for every byte count byte_unit returns a unit of the table (index
\* 0..5 for B..PB), reached by dividing by 1024 while the value is >= 1024
\* and a larger unit remains: the value is below 1024 unless the unit is PB;
\* 0 -> (0, B), 1024 -> (1, KB), 1536 -> (1.5, KB).
C15_ByteUnit ==
    (pure.op = "byte_unit" /\ pure.phase = 1)
    => LET f == AsF32(pure.d)
           r == pure.out1
       IN /\ r.i \in 0..(UnitsLen - 1)
          /\ r.m = f.m /\ r.e = f.e - 10 * r.i
          /\ r.i < UnitsLen - 1 => ~GeqKilo(r.m, r.e)
          /\ r.i > 0 => GeqKilo(r.m, r.e + 10)
          /\ pure.d = U64(0) => (r.i = 0 /\ r.m = 0)
          /\ pure.d = U64(1024) => (r.i = 1 /\ F32Is(r.m, r.e, 1, 0))
          /\ pure.d = U64(1536) => (r.i = 1 /\ F32Is(r.m, r.e, 3, 1))

\* 2^64 - 1 bytes: the last unit, with a value of 1024 or more
C15_Witness ==
    /\ pure.op = "byte_unit" /\ pure.phase = 1
    /\ pure.d = <<65535, 65535, 65535, 65535>>
    /\ pure.out1.i = UnitsLen - 1 /\ GeqKilo(pure.out1.m, pure.out1.e)

\* the step of the loop body in which update ran: it panicked, span, failed
\* or produced a frame
UpdateCalled ==
    /\ rpc = "render"
    /\ rpc' \in {"panicked", "spinning", "failed"} \/ frames' # frames

\* C16: RenderLoop never calls update with a total of zero or an unknown
\* total, whatever total the engine reports.
C16_UpdatePrecondition ==
    [][UpdateCalled => (total_len.some /\ total_len.v > 0)]_vars

\* the loop body ran to its end for one notification (it did not panic, spin
\* or return an error, and the task was not dropped)
BodyDone == rpc = "render" /\ rpc' \notin {"render", "panicked", "spinning", "failed", "dropped"}

\* C18: after every notification the loop handles, rendered or not, it goes
\* through the delay before it waits again; between two consecutive frames
\* a delay has completed; and one notification takes all changes published
\* so far, its frame showing the latest value.
C18_Throttled ==
    /\ [][BodyDone => rpc' = "sleep"]_vars
    /\ [][(rpc' = "wait" /\ rpc # "wait") => rpc \in {"query", "sleep"}]_vars
    /\ [][frames' # frames => (frames = <<>> \/ slept)]_vars
    /\ [][(rpc = "wait" /\ rpc' = "render") => rx_version' = chVersion]_vars
    /\ [][frames' # frames
            => /\ frames'[Len(frames')].ver = rx_version
               /\ frames'[Len(frames')].pct = (chValue * 100) \div total_len.v]_vars

\* two publications during one delay, then one frame for both
C18_Witness ==
    /\ Len(frames) = 2 /\ frames[2].ver = frames[1].ver + 2
    /\ frames[2].ver = chVersion /\ frames[2].pct = (chValue * 100) \div total_len.v
    /\ frames[2].pct > frames[1].pct

\* C19: the cursor is hidden exactly once, before the transfer is started
\* and whatever the flags are, and nothing makes it visible again.
C19_HiddenOnce ==
    /\ [](hides <= 1)
    /\ [](engState # "idle" => (hides = 1 /\ ~cursorVisible))
    /\ [][~cursorVisible => ~cursorVisible']_vars
    /\ [][hides' # hides => (engState = "idle" /\ mpc = "hide")]_vars

\* a job with progress off and silence on that failed, cursor still hidden
C19_Witness ==
    /\ MainExited /\ outcome = "err" /\ silence /\ ~progress
    /\ hides = 1 /\ ~cursorVisible

\* C17: once the completion future has resolved, a running RenderLoop
\* eventually ends by itself (Stopped, or its task returned or unwound, the
\* ProgressBar dropped with it) rather than by the process exiting.
C17_StopsWithJob ==
    (outcome # "pending" /\ RenderLoopActive) ~> (rpc \in {"stopped", "failed", "panicked"})
====
